---------------------------- MODULE Spec2Model ----------------------------
(***************************************************************************)
(* Presentation window controller (client/src-tauri/src/main.rs).          *)
(*                                                                         *)
(* Four commands act on the windows the host window manager tracks under   *)
(* the label "presentation": open_presentation_window,                     *)
(* close_presentation_window, update_presentation_window and               *)
(* is_presentation_window_open.  The controller keeps no state of its own: *)
(* every command re-resolves the window by label.                          *)
(*                                                                         *)
(* The host window manager is the environment.  Each of its calls either   *)
(* reports success, and then its effect is in place when the call returns, *)
(* or reports a failure, and then it had no effect.  The manager's store   *)
(* is a sequence of windows, so that "at most one window" is a property of *)
(* the handlers and not of the representation.                             *)
(***************************************************************************)
EXTENDS Naturals, Sequences, FiniteSets, TLC

\* Number of commands the front end may have in flight at once when the host
\* does not serialize them.
MaxInFlight == 2

\* Colour descriptors the front end may send (opaque strings).
Colors == {"#fff", "#000"}

\* struct PresentationWindowConfig
PresentationWindowConfig ==
    [always_on_top : BOOLEAN, background_color : Colors, fullscreen : BOOLEAN]

\* The fixed label every command resolves.
PresentationLabel == "presentation"

InnerWidth == 1920
InnerHeight == 1080

\* Result strings of the commands.
Ok == "Ok"
WindowAlreadyOpen == "Presentation window already open"
WindowNotFound == "Presentation window not found"
\* e.to_string() of whatever error the host reports.
PlatformError == "platform error"

\* Names of the host calls, as recorded in a command's trace.
GetWebviewWindow == "get_webview_window"
HostBuild == "build"
HostClose == "close"
HostSetAlwaysOnTop == "set_always_on_top"
HostSetFullscreen == "set_fullscreen"

VARIABLES
    windows,          \* the host's windows labelled "presentation"
    debug_assertions, \* build variant (compile-time)
    serialized,       \* whether the host runs one command at a time
    opening,          \* the open commands in flight (past the existence
                      \* check, before the builder chain): for each, the
                      \* host's windows when it was issued
    last,             \* record of the command that returned most recently
    firstOpened       \* <<config, window>> of the first successful open

vars == <<windows, debug_assertions, serialized, opening, last, firstOpened>>

----------------------------------------------------------------------------
(* Host window manager primitives *)

\* app_handle.get_webview_window("presentation"): 0 is None, i > 0 is a
\* handle to windows[i].
Lookup(ws) == IF ws = <<>> THEN {0} ELSE 1..Len(ws)

RemoveAt(ws, i) == [j \in 1..(Len(ws) - 1) |-> IF j < i THEN ws[j] ELSE ws[j + 1]]

\* WebviewUrl::App("index.html?mode=presentation".into())
PresentationUrlWithColor(config) ==
    "index.html?mode=presentation&bg=" \o config.background_color

PresentationUrl(config) == "index.html?mode=presentation"

\* The window the builder chain describes.
NewWindowFlagsSwapped(config, debug) ==
    [label |-> PresentationLabel,
     url |-> PresentationUrl(config),
     title |-> "Whiteboard - Presentation",
     width |-> InnerWidth,
     height |-> InnerHeight,
     resizable |-> TRUE,
     decorations |-> debug,
     always_on_top |-> config.fullscreen,
     fullscreen |-> config.always_on_top]

NewWindow(config, debug) ==
    [label |-> PresentationLabel,
     url |-> PresentationUrl(config),
     title |-> "Whiteboard - Presentation",
     width |-> InnerWidth,
     height |-> InnerHeight,
     resizable |-> TRUE,
     decorations |-> debug,
     always_on_top |-> config.always_on_top,
     fullscreen |-> config.fullscreen]

Call(name, ok) == [call |-> name, ok |-> ok]

----------------------------------------------------------------------------
(* The handlers, as functions of what the host answers *)

\* open: `if let Some(_window) = ... { return Err(...) }`
OpenCheckSkipped(found) == FALSE

OpenCheck(found) == found # 0

\* open: the builder chain's .build().map_err(..)? and the final Ok(()).
OpenBuildIgnoresError(ws, config, debug, ok) ==
    IF ok
    THEN [windows |-> Append(ws, NewWindow(config, debug)), ret |-> Ok]
    ELSE [windows |-> ws, ret |-> Ok]

OpenBuildOutcome(ws, config, debug, ok) ==
    IF ok
    THEN [windows |-> Append(ws, NewWindow(config, debug)), ret |-> Ok]
    ELSE [windows |-> ws, ret |-> PlatformError]

\* close_presentation_window
CloseWithoutDestroy(ws, found, ok) ==
    IF found # 0
    THEN [windows |-> ws, ret |-> Ok,
          trace |-> <<Call(GetWebviewWindow, TRUE)>>]
    ELSE [windows |-> ws, ret |-> WindowNotFound,
          trace |-> <<Call(GetWebviewWindow, TRUE)>>]

CloseAbsentOk(ws, found, ok) ==
    IF found # 0
    THEN IF ok
         THEN [windows |-> RemoveAt(ws, found), ret |-> Ok,
               trace |-> <<Call(GetWebviewWindow, TRUE), Call(HostClose, TRUE)>>]
         ELSE [windows |-> ws, ret |-> PlatformError,
               trace |-> <<Call(GetWebviewWindow, TRUE), Call(HostClose, FALSE)>>]
    ELSE [windows |-> ws, ret |-> Ok,
          trace |-> <<Call(GetWebviewWindow, TRUE)>>]

CloseOutcome(ws, found, ok) ==
    IF found # 0
    THEN IF ok
         THEN [windows |-> RemoveAt(ws, found), ret |-> Ok,
               trace |-> <<Call(GetWebviewWindow, TRUE), Call(HostClose, TRUE)>>]
         ELSE [windows |-> ws, ret |-> PlatformError,
               trace |-> <<Call(GetWebviewWindow, TRUE), Call(HostClose, FALSE)>>]
    ELSE [windows |-> ws, ret |-> WindowNotFound,
          trace |-> <<Call(GetWebviewWindow, TRUE)>>]

\* update_presentation_window
UpdateNoEarlyReturn(ws, found, config, okTop, okFull) ==
    IF found # 0
    THEN LET w1 == IF okTop
                   THEN [ws EXCEPT ![found].always_on_top = config.always_on_top]
                   ELSE ws
             w2 == IF okFull
                   THEN [w1 EXCEPT ![found].fullscreen = config.fullscreen]
                   ELSE w1
         IN [windows |-> w2,
             ret |-> IF okTop /\ okFull THEN Ok ELSE PlatformError,
             trace |-> <<Call(GetWebviewWindow, TRUE),
                         Call(HostSetAlwaysOnTop, okTop),
                         Call(HostSetFullscreen, okFull)>>]
    ELSE [windows |-> ws, ret |-> WindowNotFound,
          trace |-> <<Call(GetWebviewWindow, TRUE)>>]

UpdateFlagsSwapped(ws, found, config, okTop, okFull) ==
    IF found # 0
    THEN IF ~okTop
         THEN [windows |-> ws, ret |-> PlatformError,
               trace |-> <<Call(GetWebviewWindow, TRUE),
                           Call(HostSetAlwaysOnTop, FALSE)>>]
         ELSE LET w1 == [ws EXCEPT ![found].always_on_top = config.fullscreen]
              IN IF ~okFull
                 THEN [windows |-> w1, ret |-> PlatformError,
                       trace |-> <<Call(GetWebviewWindow, TRUE),
                                   Call(HostSetAlwaysOnTop, TRUE),
                                   Call(HostSetFullscreen, FALSE)>>]
                 ELSE [windows |-> [w1 EXCEPT ![found].fullscreen = config.always_on_top],
                       ret |-> Ok,
                       trace |-> <<Call(GetWebviewWindow, TRUE),
                                   Call(HostSetAlwaysOnTop, TRUE),
                                   Call(HostSetFullscreen, TRUE)>>]
    ELSE [windows |-> ws, ret |-> WindowNotFound,
          trace |-> <<Call(GetWebviewWindow, TRUE)>>]

UpdateOutcome(ws, found, config, okTop, okFull) ==
    IF found # 0
    THEN IF ~okTop
         THEN [windows |-> ws, ret |-> PlatformError,
               trace |-> <<Call(GetWebviewWindow, TRUE),
                           Call(HostSetAlwaysOnTop, FALSE)>>]
         ELSE LET w1 == [ws EXCEPT ![found].always_on_top = config.always_on_top]
              IN IF ~okFull
                 THEN [windows |-> w1, ret |-> PlatformError,
                       trace |-> <<Call(GetWebviewWindow, TRUE),
                                   Call(HostSetAlwaysOnTop, TRUE),
                                   Call(HostSetFullscreen, FALSE)>>]
                 ELSE [windows |-> [w1 EXCEPT ![found].fullscreen = config.fullscreen],
                       ret |-> Ok,
                       trace |-> <<Call(GetWebviewWindow, TRUE),
                                   Call(HostSetAlwaysOnTop, TRUE),
                                   Call(HostSetFullscreen, TRUE)>>]
    ELSE [windows |-> ws, ret |-> WindowNotFound,
          trace |-> <<Call(GetWebviewWindow, TRUE)>>]

\* is_presentation_window_open: get_webview_window(..).is_some()
IsOpenNegated(found) == found = 0

IsOpenResult(found) == found # 0

----------------------------------------------------------------------------
(* State machine *)

NoCall == [op |-> "none", args |-> <<>>, ret |-> "none", pre |-> <<>>,
           trace |-> <<>>, prev |-> "other"]

\* What the next command remembers of the one that returned just before it
\* was issued: "open" or "close" when that command returned Ok.
Outcome(c) == IF c.op \in {"open", "close"} /\ c.ret = Ok THEN c.op ELSE "other"

\* The record of a command that returns: its arguments, its result, the
\* host's windows when it was issued and the host calls it made.
Returned(op, args, ret, pre, trace) ==
    [op |-> op, args |-> args, ret |-> ret, pre |-> pre, trace |-> trace,
     prev |-> Outcome(last)]

\* The host dispatches a command to its handler.  When it serializes the
\* commands, a handler starts only when no other is in flight.
\* close, update and isOpen return in the step that starts them; only an
\* open stays in flight, between its check and its build.
MayStart ==
    /\ Len(opening) < MaxInFlight
    /\ serialized => opening = <<>>

\* The application starts with no presentation window.  The host of the
\* repository's platform serializes the commands.
Init ==
    /\ windows = <<>>
    /\ debug_assertions \in BOOLEAN
    /\ serialized = TRUE
    /\ opening = <<>>
    /\ last = NoCall
    /\ firstOpened = <<>>

\* The same start on a host that may or may not serialize the commands.
InitAnyHost ==
    /\ windows = <<>>
    /\ debug_assertions \in BOOLEAN
    /\ serialized \in BOOLEAN
    /\ opening = <<>>
    /\ last = NoCall
    /\ firstOpened = <<>>

\* open_presentation_window up to the existence check.
Open(config) ==
    /\ MayStart
    /\ \E found \in Lookup(windows) :
          IF OpenCheck(found)
          THEN /\ last' = Returned("open", <<config>>, WindowAlreadyOpen, windows,
                                   <<Call(GetWebviewWindow, TRUE)>>)
               /\ UNCHANGED opening
          ELSE /\ opening' = Append(opening, windows)
               /\ UNCHANGED last
    /\ UNCHANGED <<windows, debug_assertions, serialized, firstOpened>>

\* open_presentation_window from the builder chain to the return.  The
\* builder chain is the first place that reads the config, so the config of
\* an open in flight is drawn here.
OpenBuild(i, config, ok) ==
    /\ i \in DOMAIN opening
    /\ LET out == OpenBuildOutcome(windows, config, debug_assertions, ok)
       IN /\ windows' = out.windows
          /\ last' = Returned("open", <<config>>, out.ret, opening[i],
                              <<Call(GetWebviewWindow, TRUE), Call(HostBuild, ok)>>)
          /\ firstOpened' = IF ok /\ firstOpened = <<>>
                            THEN <<config, out.windows[Len(out.windows)]>>
                            ELSE firstOpened
    /\ opening' = RemoveAt(opening, i)
    /\ UNCHANGED <<debug_assertions, serialized>>

Close(ok) ==
    /\ MayStart
    /\ \E found \in Lookup(windows) :
          LET out == CloseOutcome(windows, found, ok)
          IN /\ windows' = out.windows
             /\ last' = Returned("close", <<>>, out.ret, windows, out.trace)
    /\ UNCHANGED <<debug_assertions, serialized, opening, firstOpened>>

Update(config, okTop, okFull) ==
    /\ MayStart
    /\ \E found \in Lookup(windows) :
          LET out == UpdateOutcome(windows, found, config, okTop, okFull)
          IN /\ windows' = out.windows
             /\ last' = Returned("update", <<config>>, out.ret, windows, out.trace)
    /\ UNCHANGED <<debug_assertions, serialized, opening, firstOpened>>

IsOpen ==
    /\ MayStart
    /\ \E found \in Lookup(windows) :
          last' = Returned("isOpen", <<>>, IsOpenResult(found), windows,
                           <<Call(GetWebviewWindow, TRUE)>>)
    /\ UNCHANGED <<windows, debug_assertions, serialized, opening, firstOpened>>

Next ==
    \/ \E config \in PresentationWindowConfig : Open(config)
    \/ \E i \in 1..MaxInFlight, config \in PresentationWindowConfig, ok \in BOOLEAN :
          OpenBuild(i, config, ok)
    \/ \E ok \in BOOLEAN : Close(ok)
    \/ \E config \in PresentationWindowConfig, okTop \in BOOLEAN :
          \E okFull \in (IF okTop THEN BOOLEAN ELSE {FALSE}) :
              Update(config, okTop, okFull)
    \/ IsOpen

Spec == Init /\ [][Next]_vars

SpecAnyHost == InitAnyHost /\ [][Next]_vars

----------------------------------------------------------------------------
(* Properties *)

Range(f) == {f[i] : i \in DOMAIN f}

Presentations(ws) == {i \in DOMAIN ws : ws[i].label = PresentationLabel}

Called(c, name) == \E x \in Range(c.trace) : x.call = name

Answered(c, name, ok) == Call(name, ok) \in Range(c.trace)

IsError(c) == c.op \in {"open", "close", "update"} /\ c.ret # Ok

SameFlags(a, b) ==
    /\ a.always_on_top = b.always_on_top
    /\ a.fullscreen = b.fullscreen

DiffersOnlyInColor(a, b) ==
    /\ SameFlags(a, b)
    /\ a.background_color # b.background_color

\* C1: with the commands serialized, whatever the configs and the host's
\* failures, the number of windows named "presentation" is 0 or 1 in every
\* reachable state.
C1_AtMostOneWindow == Cardinality(Presentations(windows)) <= 1

\* A window reopened after a close: one window again, not two.
C1_Witness ==
    /\ last.op = "open" /\ last.ret = Ok /\ last.prev = "close"
    /\ Cardinality(Presentations(windows)) = 1

\* C2: an isOpen issued right after an open that returned Ok returns true.
C2_OpenThenIsOpen ==
    (last.op = "isOpen" /\ last.prev = "open") => last.ret = TRUE

C2_Witness == last.op = "isOpen" /\ last.prev = "open" /\ last.ret = TRUE

\* C3: once close has returned Ok no window named "presentation" exists, and
\* an isOpen issued right after it returns false.
C3_CloseThenIsOpen ==
    /\ (last.op = "close" /\ last.ret = Ok) => Presentations(windows) = {}
    /\ (last.op = "isOpen" /\ last.prev = "close") => last.ret = FALSE

C3_Witness == last.op = "isOpen" /\ last.prev = "close" /\ last.ret = FALSE

\* C4: an open issued while a window exists returns "Presentation window
\* already open", makes no build call and leaves the windows as they were;
\* no open is past its check while a window exists.
C4_OpenWhileOpen ==
    /\ (last.op = "open" /\ last.pre # <<>>) =>
          /\ last.ret = WindowAlreadyOpen
          /\ ~Called(last, HostBuild)
          /\ windows = last.pre
    /\ \A i \in DOMAIN opening : opening[i] = <<>>

\* Rejected for a config whose flags differ from the existing window's.
C4_Witness ==
    /\ last.op = "open" /\ last.ret = WindowAlreadyOpen
    /\ Len(windows) = 1
    /\ windows[1].always_on_top # last.args[1].always_on_top
    /\ windows[1].fullscreen # last.args[1].fullscreen

\* C5: close and update issued while no window exists return "Presentation
\* window not found", make no host call besides the lookup and leave the
\* host with no window.
C5_AbsentNotFound ==
    (last.op \in {"close", "update"} /\ last.pre = <<>>) =>
        /\ last.ret = WindowNotFound
        /\ last.trace = <<Call(GetWebviewWindow, TRUE)>>
        /\ windows = <<>>

\* An update that finds the window gone after a successful close.
C5_Witness ==
    /\ last.op = "update" /\ last.prev = "close"
    /\ last.pre = <<>> /\ last.ret = WindowNotFound

\* The window after an update that applied both flags; background_color
\* plays no part.
C6_Expected(pre, config) ==
    [pre EXCEPT ![1].always_on_top = config.always_on_top,
                ![1].fullscreen = config.fullscreen]

\* C6: an update issued while the window exists, both of whose mutations the
\* host accepts, returns Ok and leaves that window with the config's
\* always_on_top and fullscreen and everything else as it was; the result
\* does not depend on background_color.
C6_UpdateApplies ==
    (/\ last.op = "update" /\ last.pre # <<>>
     /\ Answered(last, HostSetAlwaysOnTop, TRUE)
     /\ Answered(last, HostSetFullscreen, TRUE)) =>
        /\ last.ret = Ok
        /\ Len(windows) = 1
        /\ windows[1].always_on_top = last.args[1].always_on_top
        /\ windows[1].fullscreen = last.args[1].fullscreen
        /\ \A c \in PresentationWindowConfig :
              SameFlags(c, last.args[1]) => windows = C6_Expected(last.pre, c)

\* Both flags flipped by the update.
C6_Witness ==
    /\ last.op = "update" /\ last.ret = Ok
    /\ last.pre[1].always_on_top # windows[1].always_on_top
    /\ last.pre[1].fullscreen # windows[1].fullscreen

\* The update whose first mutation was accepted and whose second was not.
C7_PartialUpdate(c) ==
    /\ c.op = "update"
    /\ Answered(c, HostSetAlwaysOnTop, TRUE)
    /\ Answered(c, HostSetFullscreen, FALSE)

\* C7: an open, close or update that returns an error leaves the windows as
\* they were when it was issued, except the update whose set_always_on_top
\* was accepted and whose set_fullscreen was rejected: that one leaves the
\* new always_on_top in place and fullscreen as it was.  An update whose
\* set_always_on_top is rejected makes no set_fullscreen call.
C7_ErrorsLeaveState ==
    /\ IsError(last) =>
          IF C7_PartialUpdate(last)
          THEN windows = [last.pre EXCEPT ![1].always_on_top =
                                              last.args[1].always_on_top]
          ELSE windows = last.pre
    /\ (last.op = "update" /\ Answered(last, HostSetAlwaysOnTop, FALSE)) =>
          /\ ~Called(last, HostSetFullscreen)
          /\ last.ret = PlatformError

\* The partial mutation: an error returned with always_on_top changed.
C7_Witness ==
    /\ IsError(last) /\ C7_PartialUpdate(last)
    /\ windows[1].always_on_top # last.pre[1].always_on_top
    /\ windows[1].fullscreen = last.pre[1].fullscreen
    /\ windows[1].fullscreen # last.args[1].fullscreen

\* C8: an open issued while no window exists returns Ok and leaves exactly
\* one window named "presentation" with the config's always_on_top and
\* fullscreen when the host's build succeeds; it returns the host's error
\* and leaves no window when the build fails.
C8_OpenCreates ==
    (last.op = "open" /\ last.pre = <<>>) =>
        /\ Answered(last, HostBuild, TRUE) =>
              /\ last.ret = Ok
              /\ Cardinality(Presentations(windows)) = 1
              /\ Len(windows) = 1
              /\ windows[1].always_on_top = last.args[1].always_on_top
              /\ windows[1].fullscreen = last.args[1].fullscreen
        /\ Answered(last, HostBuild, FALSE) =>
              /\ last.ret = PlatformError
              /\ windows = <<>>

\* Created with the two flags set differently.
C8_Witness ==
    /\ last.op = "open" /\ last.ret = Ok
    /\ windows[1].always_on_top /\ ~windows[1].fullscreen

\* C9 as stated: two successful opens whose configs differ only in
\* background_color create distinguishable windows.
C9_ColorDistinguishes ==
    (/\ firstOpened # <<>>
     /\ last.op = "open" /\ last.ret = Ok
     /\ DiffersOnlyInColor(firstOpened[1], last.args[1])) =>
        firstOpened[2] # windows[Len(windows)]

\* C9, amended: open does not forward background_color; two successful
\* opens whose configs agree on always_on_top and fullscreen create
\* identical windows, whatever their background_color.
C9_ColorIgnored ==
    (/\ firstOpened # <<>>
     /\ last.op = "open" /\ last.ret = Ok
     /\ SameFlags(firstOpened[1], last.args[1])) =>
        firstOpened[2] = windows[Len(windows)]

\* Two successful opens that differ only in colour.
C9_Witness ==
    /\ firstOpened # <<>>
    /\ last.op = "open" /\ last.ret = Ok
    /\ DiffersOnlyInColor(firstOpened[1], last.args[1])
    /\ firstOpened[2] = windows[Len(windows)]

\* C10: when the host serializes the commands, an open that has passed its
\* check is the only command in flight and no window exists until it builds
\* one: never two opens past the check, never one past the check beside an
\* existing window.  (Without serialization two opens can both pass the
\* check before either builds: C10_Witness.)
C10_SerializedCheckThenCreate ==
    serialized =>
        /\ Len(opening) <= 1
        /\ Len(opening) + Len(windows) <= 1

\* Both opens looked up the window before either built it, both found none,
\* and both are about to build.
C10_Witness ==
    /\ ~serialized
    /\ Len(opening) = 2
    /\ \A i \in DOMAIN opening : opening[i] = <<>>
    /\ windows = <<>>

=============================================================================
